---- MODULE Spec2Model ----
(***************************************************************************)
(* Webhook ingestion and state reconciliation of the WhatsApp service      *)
(* (main.py, utils.py).  The Supabase tables leads, messages,              *)
(* conversations and api_logs are shared by every service instance; each   *)
(* REST call against them is one atomic step, and every call may fail      *)
(* with a non-2xx response or with an exception (timeout, connection).     *)
(* Strings that the code inspects character by character (phone numbers)   *)
(* are sequences of one-character strings.                                 *)
(***************************************************************************)
EXTENDS Integers, Sequences, FiniteSets, TLC

VARIABLES leads, messages, conversations, templates, api_logs,
          recent_messages, pc, loc, response, response_body, nextId,
          requests, applied, call, failures, dropped,
          norm, added, got, ct

\* the state of the helper runs: phone normalization (norm), the entries
\* handed to add_to_recent_messages and the last get_recent_messages result
\* (added, got), and create_whatsapp_template (ct)
units == <<norm, added, got, ct>>

vars == <<leads, messages, conversations, templates, api_logs,
          recent_messages, pc, loc, response, response_body, nextId,
          requests, applied, call, failures, dropped, units>>

(* ---------------------------- bounds ----------------------------------- *)

\* webhook requests accepted over the whole run
MaxRequests == 2

\* repository calls that fail (non-2xx or exception) over the whole run
MaxFailures == 1

\* webhook requests accepted by the instances of the multi-instance run
MaxConcurrent == 2

\* service instances (uvicorn workers / deployments) sharing one store
Instances == {"a", "b"}

\* absent / null values: None for strings, NoPhone for phone strings,
\* NoId for message ids, NoLead for lead ids, NoResponse while in flight
None == "None"
NoPhone == <<>>
NoId == <<>>
NoLead == 0
NoResponse == 0

(* ---------------------------- constants -------------------------------- *)

VERIFY_TOKEN == "verify_token_123"

MAX_RECENT_MESSAGES == 100

DefaultPrefix == <<"9", "1">>

DefaultReply == "Thank you for contacting Katyayani Organics!"

(* ---------------------------- inputs ----------------------------------- *)

\* elements of value.messages: {from, text: {body}, id}; every "from" here
\* denotes the counterparty 915; dict is FALSE for an element that is not a
\* JSON object (a string, a number)
InboundEvents ==
    { [dict |-> TRUE, from |-> <<"+", "9", "1", " ", "5">>, text |-> "Hi",
       id |-> <<"m", 1>>],
      [dict |-> TRUE, from |-> <<"5">>, text |-> "Hi", id |-> <<"m", 1>>],
      [dict |-> TRUE, from |-> <<"5">>, text |-> "Hi", id |-> NoId],
      [dict |-> TRUE, from |-> NoPhone, text |-> "Hi", id |-> <<"m", 2>>],
      [dict |-> TRUE, from |-> <<"5">>, text |-> "",   id |-> <<"m", 2>>] }

\* a well-formed inbound message
Hello == [dict |-> TRUE, from |-> <<"5">>, text |-> "Hi", id |-> <<"m", 1>>]

\* an element of value.messages that is a JSON string
NotAnObject == [dict |-> FALSE, from |-> NoPhone, text |-> "", id |-> NoId]

\* value.messages of one payload: one well-formed element, or a malformed
\* element followed by a well-formed one
MessageBatches ==
    { <<Hello>>, <<NotAnObject, Hello>>,
      <<[dict |-> TRUE, from |-> <<"5">>, text |-> "", id |-> <<"m", 2>>],
        Hello>> }

\* elements of value.statuses: {id, status, recipient_id, errors: [{message}]}
StatusOf(id, status, error) ==
    [id |-> id, status |-> status, recipient_id |-> <<"5">>, error |-> error]

StatusEvents ==
    { StatusOf(<<"m", 1>>, s, None) : s \in {"sent", "delivered", "read", "deleted"} }
    \cup
    { StatusOf(<<"m", 1>>, "failed", "E"),
      StatusOf(<<"m", 9>>, "read", None),
      [id |-> <<"m", 1>>, status |-> "read", recipient_id |-> NoPhone,
       error |-> None] }

\* value.statuses of one payload: one status event, or two for one message
\* in the order the provider batched them
StatusBatches ==
    { <<s>> : s \in StatusEvents }
    \cup
    { <<s1, s2>> :
        s1 \in { StatusOf(<<"m", 1>>, "failed", "E"),
                 StatusOf(<<"m", 1>>, "read", None) },
        s2 \in { StatusOf(<<"m", 1>>, "read", None),
                 StatusOf(<<"m", 1>>, "sent", None),
                 StatusOf(<<"m", 1>>, "deleted", None) } }

\* value.message_template_status_update:
\* {message_template_name, event, reason}; "" is a missing name or reason
TemplateEvents ==
    { [message_template_name |-> "t1", event |-> "APPROVED", reason |-> ""],
      [message_template_name |-> "t1", event |-> "REJECTED", reason |-> "R"],
      [message_template_name |-> "t1", event |-> "LIMIT_EXCEEDED", reason |-> ""],
      [message_template_name |-> "t1", event |-> "FLAGGED", reason |-> ""],
      [message_template_name |-> "t9", event |-> "APPROVED", reason |-> ""],
      [message_template_name |-> "",   event |-> "APPROVED", reason |-> ""] }

\* a JSON object body: object is None and entry FALSE when the key is absent;
\* template holds the template-status update of the change, if any
Payload(object, entry, msgs, stats, tmpl) ==
    [kind |-> "json", shape |-> "object", object |-> object, entry |-> entry,
     messages |-> msgs, statuses |-> stats, template |-> tmpl]

\* a request body that is no JSON object: empty, not JSON text
\* ("invalid"), bytes that are no text at all ("undecodable"), or a JSON
\* value of another shape ("array")
Raw(kind, shape) ==
    [kind |-> kind, shape |-> shape, object |-> None, entry |-> FALSE,
     messages |-> <<>>, statuses |-> <<>>, template |-> <<>>]

\* bodies of message and status deliveries
DeliveryBodies ==
    { Raw("empty", None), Raw("invalid", None),
      Payload("page", TRUE, <<>>, <<>>, <<>>) }
    \cup
    { Payload("whatsapp_business_account", TRUE, <<e>>, <<>>, <<>>) :
        e \in InboundEvents }
    \cup
    { Payload("whatsapp_business_account", TRUE, <<>>, b, <<>>) :
        b \in StatusBatches }

\* bodies of every shape: no JSON object at all, an envelope without object
\* or entry, another object type, message batches with a malformed element,
\* template-status updates, and one change that carries a message, a status
\* and a template-status update
EnvelopeBodies ==
    { Raw("empty", None), Raw("invalid", None), Raw("undecodable", None),
      Raw("json", "array"),
      Payload(None, FALSE, <<>>, <<>>, <<>>),
      Payload(None, TRUE, <<Hello>>, <<>>, <<>>),
      Payload("page", TRUE, <<Hello>>, <<>>, <<>>),
      Payload("whatsapp_business_account", FALSE, <<>>, <<>>, <<>>),
      Payload("whatsapp_business_account", TRUE, <<Hello>>,
              <<StatusOf(<<"m", 1>>, "read", None)>>,
              <<[message_template_name |-> "t1", event |-> "PAUSED",
                 reason |-> ""]>>) }
    \cup
    { Payload("whatsapp_business_account", TRUE, b, <<>>, <<>>) :
        b \in MessageBatches }
    \cup
    { Payload("whatsapp_business_account", TRUE, <<>>, <<>>, <<t>>) :
        t \in TemplateEvents }

\* request bodies of POST /webhook
Bodies == DeliveryBodies \cup EnvelopeBodies

\* X-Hub-Signature-256 headers: absent, the HMAC of the body ("good"), another
\* hash, a header without the sha256= prefix
NoSignature == [prefix |-> "", hash |-> ""]

Signatures ==
    { NoSignature,
      [prefix |-> "sha256=", hash |-> "good"],
      [prefix |-> "sha256=", hash |-> "bad"],
      [prefix |-> "md5=",    hash |-> "good"] }

\* query parameters of GET /webhook; None is a missing parameter
Modes == {None, "subscribe", "unsubscribe"}

Tokens == {None, VERIFY_TOKEN, "wrong"}

Challenges == {"abc123"}

\* outcome of one REST call against the store
RepoOutcomes == {"ok", "http_error", "exception"}

\* outcome of the provider's send call: 2xx with a message id, 2xx without
\* the id key, 2xx with a null id, another status code, an exception
SendOutcomes == {"ok_id", "ok_noid", "ok_null", "http_error", "exception"}

\* the send outcomes of the delivery runs: an id, no id key, or a failure
DeliveryOutcomes == {"ok_id", "ok_noid", "http_error", "exception"}

(* ---------------------------- pure helpers ----------------------------- *)

RECURSIVE Remove(_, _)
\* str.replace(c, "")
Remove(s, c) ==
    IF s = <<>> THEN <<>>
    ELSE IF Head(s) = c THEN Remove(Tail(s), c)
    ELSE <<Head(s)>> \o Remove(Tail(s), c)

\* phone.replace("+", "").replace(" ", "")
Strip(p) == Remove(Remove(p, "+"), " ")

\* str.startswith("91")
StartsWith(s, pre) ==
    /\ Len(s) >= Len(pre)
    /\ SubSeq(s, 1, Len(pre)) = pre

\* a normalization that prepends "91" whatever the phone starts with
Normalize_AlwaysPrefix(p) == DefaultPrefix \o Strip(p)

\* strip, then prepend "91" unless already there
Normalize(p) ==
    LET s == Strip(p)
    IN  IF StartsWith(s, DefaultPrefix) THEN s ELSE DefaultPrefix \o s

\* a lookup table that leaves "read" as it is
status_map_Identity(s) == s

\* status_map.get(msg_status, msg_status)
status_map(s) ==
    CASE s = "sent"      -> "sent"
      [] s = "delivered" -> "delivered"
      [] s = "read"      -> "seen"
      [] s = "failed"    -> "failed"
      [] OTHER           -> s

\* a check of the sender alone
InvalidMessage_PhoneOnly(ev) == ev.from = NoPhone

\* not phone or not text
InvalidMessage(ev) == ev.from = NoPhone \/ ev.text = ""

\* not phone or not message_id or not msg_status
InvalidStatus(st) == st.recipient_id = NoPhone \/ st.id = NoId \/ st.status = ""

\* a lookup that never finds the row
LeadsByPhone_NeverFinds(ls, phone) == {}

\* rows of GET leads?phone=eq.<phone>
LeadsByPhone(ls, phone) == { j \in 1..Len(ls) : ls[j].phone = phone }

\* a guard that never lets the conversation insert run
HasLead_Never(lead_id) == FALSE

\* a conversation insert without the guard
HasLead_Always(lead_id) == TRUE

\* `if lead_id:` guard of the conversation insert
HasLead(lead_id) == lead_id # NoLead

\* a PATCH without the message_id filter
PatchMessages_NoFilter(ms, id, status, error_message) ==
    [k \in 1..Len(ms) |->
        [ms[k] EXCEPT !.status = status, !.error_message = error_message]]

\* a status update that replaces the rows it matches: they are deleted and
\* nothing is written back
PatchMessages_Delete(ms, id, status, error_message) ==
    SelectSeq(ms, LAMBDA row : row.message_id # id)

\* a PATCH that never overwrites a failed status
PatchMessages_KeepFailed(ms, id, status, error_message) ==
    [k \in 1..Len(ms) |->
        IF ms[k].message_id = id /\ ms[k].status # "failed"
        THEN [ms[k] EXCEPT !.status = status, !.error_message = error_message]
        ELSE ms[k]]

\* PATCH messages?message_id=eq.<id> with {status, error_message}
PatchMessages(ms, id, status, error_message) ==
    [k \in 1..Len(ms) |->
        IF ms[k].message_id = id
        THEN [ms[k] EXCEPT !.status = status, !.error_message = error_message]
        ELSE ms[k]]

\* the HMAC-SHA256 of the raw body under the configured key
Hmac(body) == "good"

\* verify_webhook_signature: False without a header, without the sha256=
\* prefix, or on a mismatch
verify_webhook_signature(body, signature) ==
    /\ signature # NoSignature
    /\ signature.prefix = "sha256="
    /\ signature.hash = Hmac(body)

\* a strict mode that turns unverified requests away
SignatureRejects_Strict(x_hub_signature, is_valid) ==
    x_hub_signature # NoSignature /\ ~is_valid

\* receive_webhook, `if x_hub_signature: ... if not is_valid: warning`: the
\* result selects a log line and the request goes on either way
SignatureRejects(x_hub_signature, is_valid) == FALSE

\* a comparison that lets every token pass
verify_webhook_token_Any(token, expected_token) == TRUE

\* verify_webhook_token
verify_webhook_token(token, expected_token) == token = expected_token

\* a dispatch that does not look at the object type
Dispatches_Any(object) == TRUE

\* body.get("object") == "whatsapp_business_account"
Dispatches(object) == object = "whatsapp_business_account"

\* a reply sent only when the inbound message was stored
SendsReply_IfStored(db_success) == db_success

\* process_incoming_message after store_conversation_with_message: db_success
\* selects a log line, and the automatic reply is sent either way
SendsReply(db_success) == TRUE

\* a send whose status code is not looked at
SendSuccess_Always(o) == TRUE

\* send_whatsapp_message: response.status_code in [200, 201]
SendSuccess(o) == o \in {"ok_id", "ok_noid", "ok_null"}

\* a table without the LIMIT_EXCEEDED entry
template_status_map_Identity(event) == event

\* process_template_status_update: status_map.get(event, event)
template_status_map(event) ==
    CASE event = "APPROVED"         -> "APPROVED"
      [] event = "REJECTED"         -> "REJECTED"
      [] event = "PENDING"          -> "PENDING"
      [] event = "PENDING_DELETION" -> "PENDING_DELETION"
      [] event = "DELETED"          -> "DELETED"
      [] event = "DISABLED"         -> "DISABLED"
      [] event = "PAUSED"           -> "PAUSED"
      [] event = "LIMIT_EXCEEDED"   -> "REJECTED"
      [] OTHER                      -> event

\* not template_name or not event
InvalidTemplateEvent(t) == t.message_template_name = "" \/ t.event = ""

\* PATCH templates?template_name=eq.<name> with {status} and, when the
\* reason is not empty, {rejection_reason}
PatchTemplates(ts, name, status, reason) ==
    [k \in 1..Len(ts) |->
        IF ts[k].template_name = name
        THEN [ts[k] EXCEPT !.status = status,
                           !.rejection_reason = IF reason # "" THEN reason ELSE @]
        ELSE ts[k]]

\* a buffer that drops the new entry once it is full
add_to_recent_messages_KeepOldest(buf, message, sender, phone, direction) ==
    LET entry == [message |-> message, sender |-> sender, phone |-> phone,
                  direction |-> direction,
                  status |-> IF direction = "sent" THEN "sent" ELSE "received"]
        b == Append(buf, entry)
    IN  IF Len(b) > MAX_RECENT_MESSAGES
        THEN SubSeq(b, 1, MAX_RECENT_MESSAGES)
        ELSE b

\* recent_messages.append(entry); keep the last MAX_RECENT_MESSAGES
add_to_recent_messages(buf, message, sender, phone, direction) ==
    LET entry == [message |-> message, sender |-> sender, phone |-> phone,
                  direction |-> direction,
                  status |-> IF direction = "sent" THEN "sent" ELSE "received"]
        b == Append(buf, entry)
    IN  IF Len(b) > MAX_RECENT_MESSAGES
        THEN SubSeq(b, Len(b) - MAX_RECENT_MESSAGES + 1, Len(b))
        ELSE b

\* log_api_call: one more api_logs row (api_logs is the row count; nothing
\* reads the table, and a failed insert is swallowed)
log_api_call(logs) == logs + 1

\* outcomes a repository call can have once f calls have failed
Outcomes(f) == IF f < MaxFailures THEN RepoOutcomes ELSE {"ok"}

\* the failure count after a call with outcome o
Count(f, o) == IF o = "ok" THEN f ELSE f + 1

(* ---------------------------- state ------------------------------------ *)

\* locals of the request an instance is serving
IdleLoc ==
    [object |-> None, entry |-> FALSE, x_hub_signature |-> NoSignature,
     msgs |-> <<>>, stats |-> <<>>, tmpl |-> <<>>, phone |-> NoPhone,
     mode |-> None, text |-> "", message_id |-> NoId, msg_success |-> FALSE,
     lead_id |-> NoLead, unmatched |-> FALSE, db_success |-> FALSE]

\* bookkeeping of the process_incoming_message call an instance last ran:
\* rows written, sends attempted and reported successful, buffer entries
\* added, store_lead's result, the failed repository calls counted when
\* the request came in, and, while a Lead insert is about to be made, what
\* the lookup before it came to
NoCall ==
    [ev |-> [dict |-> TRUE, from |-> NoPhone, text |-> "", id |-> NoId],
     done |-> FALSE, inMsg |-> 0, lead |-> 0, outMsg |-> 0, conv |-> 0,
     sends |-> 0, sendOk |-> FALSE, bufAdds |-> 0, slOk |-> FALSE,
     inConv |-> 0, before |-> 0, lookup |-> "none"]

\* no normalization under way
NoNorm == [pc |-> "off", raw |-> <<>>, once |-> <<>>, twice |-> <<>>]

\* no record kept of the add_to_recent_messages calls
NoAdded == [on |-> FALSE, entries |-> <<>>, calls |-> 0]

\* no get_recent_messages call made
NoGot == [phone |-> NoPhone, limit |-> 0, of |-> <<>>, result |-> <<>>]

\* no create_whatsapp_template call under way
NoCt == [pc |-> "off", configured |-> FALSE, attempt |-> 0, outcomes |-> <<>>,
         success |-> FALSE, result |-> None]

\* the templates table holds the templates created through the template
\* endpoints, pending approval
Init ==
    /\ leads = <<>>
    /\ messages = <<>>
    /\ conversations = <<>>
    /\ templates = << [template_name |-> "t1", status |-> "PENDING",
                       rejection_reason |-> None],
                      [template_name |-> "t2", status |-> "PENDING",
                       rejection_reason |-> None] >>
    /\ api_logs = 0
    /\ recent_messages = [i \in Instances |-> <<>>]
    /\ pc = [i \in Instances |-> "idle"]
    /\ loc = [i \in Instances |-> IdleLoc]
    /\ response = [i \in Instances |-> NoResponse]
    /\ response_body = [i \in Instances |-> None]
    /\ nextId = 1
    /\ requests = 0
    /\ applied = <<>>
    /\ call = [i \in Instances |-> NoCall]
    /\ failures = 0
    /\ dropped = {}
    /\ norm = NoNorm
    /\ added = NoAdded
    /\ got = NoGot
    /\ ct = NoCt

\* the loops of receive_webhook: messages first, then statuses, then the
\* template-status update, then the summary log and the 200 response
NextPc(l) ==
    IF l.msgs # <<>> THEN "pim"
    ELSE IF l.stats # <<>> THEN "pms"
    ELSE IF l.tmpl # <<>> THEN "tsu"
    ELSE "wh_end"

(* ---------------------------- GET /webhook ----------------------------- *)

\* verify_webhook
VerifyWebhook(i, hub_mode, hub_verify_token, hub_challenge) ==
    /\ pc[i] = "idle"
    /\ requests < MaxRequests
    /\ requests' = requests + 1
    /\ api_logs' = log_api_call(api_logs)
    /\ IF hub_mode = "subscribe"
       THEN IF verify_webhook_token(hub_verify_token, VERIFY_TOKEN)
            THEN /\ response' = [response EXCEPT ![i] = 200]
                 /\ response_body' = [response_body EXCEPT ![i] = hub_challenge]
            ELSE /\ response' = [response EXCEPT ![i] = 403]
                 /\ response_body' = [response_body EXCEPT ![i] = "error"]
       ELSE /\ response' = [response EXCEPT ![i] = 400]
            /\ response_body' = [response_body EXCEPT ![i] = "error"]
    /\ UNCHANGED <<leads, messages, conversations, templates, recent_messages,
                   pc, loc, nextId, applied, call, failures, dropped,
                   units>>

(* ---------------------------- POST /webhook ---------------------------- *)

\* the outer `except Exception` of receive_webhook:
\* log_api_call("/webhook", "POST", None, 500, str(e)) and the 500 response
WebhookError(i) ==
    /\ api_logs' = log_api_call(api_logs)
    /\ response' = [response EXCEPT ![i] = 500]
    /\ response_body' = [response_body EXCEPT ![i] = "error"]
    /\ pc' = [pc EXCEPT ![i] = "idle"]
    /\ loc' = [loc EXCEPT ![i] = IdleLoc]
    /\ call' = [call EXCEPT ![i] = NoCall]

\* receive_webhook up to the dispatch loops: the empty body, json.loads
\* (JSONDecodeError is answered 400; the UnicodeDecodeError of bytes that are
\* no text, and the AttributeError of body.get on a JSON value that is no
\* object, reach the outer except), the signature check, the object type.
\* `header` is the X-Hub-Signature-256 header of the request, and
\* x_hub_signature the value the signature check is run on.
ReceiveAs(i, body, header, x_hub_signature) ==
    /\ pc[i] = "idle"
    /\ requests < MaxRequests
    /\ requests' = requests + 1
    /\ IF body.kind = "empty"
       THEN /\ response' = [response EXCEPT ![i] = 200]
            /\ response_body' = [response_body EXCEPT ![i] = "received"]
            /\ UNCHANGED <<pc, loc, call, api_logs>>
       ELSE IF body.kind = "invalid"
       THEN /\ response' = [response EXCEPT ![i] = 400]
            /\ response_body' = [response_body EXCEPT ![i] = "error"]
            /\ UNCHANGED <<pc, loc, call, api_logs>>
       ELSE IF body.kind = "undecodable" \/ body.shape # "object"
       THEN WebhookError(i)
       ELSE IF SignatureRejects(x_hub_signature,
                                verify_webhook_signature(body, x_hub_signature))
       THEN /\ response' = [response EXCEPT ![i] = 403]
            /\ response_body' = [response_body EXCEPT ![i] = "error"]
            /\ UNCHANGED <<pc, loc, call, api_logs>>
       ELSE LET r == [IdleLoc EXCEPT !.object = body.object,
                                     !.entry = body.entry,
                                     !.x_hub_signature = header]
                l == IF Dispatches(body.object) /\ body.entry
                     THEN [r EXCEPT !.msgs = body.messages,
                                    !.stats = body.statuses,
                                    !.tmpl = body.template]
                     ELSE r
            IN  /\ response' = [response EXCEPT ![i] = NoResponse]
                /\ response_body' = [response_body EXCEPT ![i] = None]
                /\ loc' = [loc EXCEPT ![i] = l]
                /\ pc' = [pc EXCEPT ![i] = NextPc(l)]
                /\ UNCHANGED <<call, api_logs>>
    /\ UNCHANGED <<leads, messages, conversations, templates, recent_messages,
                   nextId, applied, failures, dropped,
                   units>>

\* POST /webhook with the given body and X-Hub-Signature-256 header
Receive(i, body, x_hub_signature) ==
    ReceiveAs(i, body, x_hub_signature, x_hub_signature)

\* end of receive_webhook: log_api_call("/webhook", "POST", None, 200), 200
WebhookEnd(i) ==
    /\ pc[i] = "wh_end"
    /\ api_logs' = log_api_call(api_logs)
    /\ response' = [response EXCEPT ![i] = 200]
    /\ response_body' = [response_body EXCEPT ![i] = "received"]
    /\ pc' = [pc EXCEPT ![i] = "idle"]
    /\ loc' = [loc EXCEPT ![i] = IdleLoc]
    /\ call' = [call EXCEPT ![i] = NoCall]
    /\ UNCHANGED <<leads, messages, conversations, templates, recent_messages,
                   nextId, requests, applied, failures, dropped,
                   units>>

(* ---------------------------- inbound message -------------------------- *)

\* one turn of `for message in messages`: the log line that reads
\* message.get('from') (an AttributeError on an element that is no object
\* reaches the outer except of receive_webhook), then
\* process_incoming_message: extraction, the silent abort, normalization
PimBegin(i) ==
    /\ pc[i] = "pim"
    /\ LET ev == Head(loc[i].msgs)
           l  == [loc[i] EXCEPT !.msgs = Tail(@)]
       IN  IF ~ev.dict
           THEN WebhookError(i)
           ELSE IF InvalidMessage(ev)
           THEN /\ loc' = [loc EXCEPT ![i] = l]
                /\ pc' = [pc EXCEPT ![i] = NextPc(l)]
                /\ call' = [call EXCEPT ![i] = [NoCall EXCEPT !.ev = ev,
                                                              !.done = TRUE]]
                /\ UNCHANGED <<api_logs, response, response_body>>
           ELSE /\ loc' = [loc EXCEPT ![i] =
                        [l EXCEPT !.phone = Normalize(ev.from),
                                  !.mode = "inbound",
                                  !.text = ev.text,
                                  !.message_id = ev.id]]
                /\ pc' = [pc EXCEPT ![i] = "sl_get"]
                /\ call' = [call EXCEPT ![i] = [NoCall EXCEPT !.ev = ev]]
                /\ UNCHANGED <<api_logs, response, response_body>>
    /\ UNCHANGED <<leads, messages, conversations, templates, recent_messages,
                   nextId, requests, applied, failures, dropped,
                   units>>

\* where store_lead returns to: create_lead of POST /leads/create, or
\* process_incoming_message, which goes on to store the message
AfterStoreLead(l) == IF l.mode = "lead" THEN "cl_end" ELSE "m_post"

\* the name store_lead is called with
LeadName(l) == IF l.mode = "lead" THEN "Named" ELSE "Customer"

\* store_lead: GET leads?phone=eq.<phone_clean>
StoreLeadGet(i, o) ==
    /\ pc[i] = "sl_get"
    /\ LET p == Strip(loc[i].phone)
       IN  IF o = "ok" /\ LeadsByPhone(leads, p) # {}
           THEN /\ pc' = [pc EXCEPT ![i] = AfterStoreLead(loc[i])]
                /\ call' = [call EXCEPT ![i].slOk = TRUE]
           ELSE IF o = "exception"
           THEN /\ pc' = [pc EXCEPT ![i] = AfterStoreLead(loc[i])]
                /\ call' = call
           ELSE /\ pc' = [pc EXCEPT ![i] = "sl_post"]
                /\ call' = [call EXCEPT ![i].lookup =
                                IF o = "ok" THEN "empty" ELSE "failed"]
    /\ failures' = Count(failures, o)
    /\ UNCHANGED <<leads, messages, conversations, api_logs, recent_messages,
                   loc, response, response_body, nextId, requests, templates, applied, dropped,
                   units>>

\* store_lead: POST leads
StoreLeadPost(i, o) ==
    /\ pc[i] = "sl_post"
    /\ LET p == Strip(loc[i].phone)
       IN  IF o = "ok"
           THEN /\ leads' = Append(leads, [id |-> Len(leads) + 1, phone |-> p,
                                           name |-> LeadName(loc[i]),
                                           status |-> "new"])
                /\ call' = [call EXCEPT ![i].slOk = TRUE, ![i].lead = @ + 1,
                                        ![i].lookup = "none"]
           ELSE /\ leads' = leads
                /\ call' = [call EXCEPT ![i].lookup = "none"]
    /\ pc' = [pc EXCEPT ![i] = AfterStoreLead(loc[i])]
    /\ failures' = Count(failures, o)
    /\ UNCHANGED <<messages, conversations, api_logs, recent_messages, loc,
                   response, response_body, nextId, requests, templates, applied, dropped,
                   units>>

\* the sender the endpoints pass to store_conversation_with_message
Sender(mode) ==
    IF mode = "inbound" THEN "Customer"
    ELSE IF mode = "api" THEN "Agent"
    ELSE "Katyayani Organics"

\* what follows a return of store_conversation_with_message in
\* process_incoming_message, given the locals l, the bookkeeping c and the
\* returned success flag: after the inbound message the buffer entry and
\* the send; after the reply the buffer entry, log_api_call and the return.
\* In send_message the flag is kept for the response.
ScwmReturn(i, l, c, db_success) ==
    IF l.mode = "api"
    THEN /\ loc' = [loc EXCEPT ![i] = [l EXCEPT !.db_success = db_success]]
         /\ call' = [call EXCEPT ![i] = c]
         /\ pc' = [pc EXCEPT ![i] = "sm_end"]
         /\ UNCHANGED <<recent_messages, api_logs>>
    ELSE IF l.mode = "inbound" /\ SendsReply(db_success)
    THEN /\ recent_messages' = [recent_messages EXCEPT ![i] =
                add_to_recent_messages(@, l.text, l.phone, l.phone, "received")]
         /\ loc' = [loc EXCEPT ![i] = l]
         /\ call' = [call EXCEPT ![i] = [c EXCEPT !.bufAdds = @ + 1]]
         /\ pc' = [pc EXCEPT ![i] = "send"]
         /\ api_logs' = api_logs
    ELSE /\ recent_messages' = [recent_messages EXCEPT ![i] =
                IF l.mode = "inbound"
                THEN add_to_recent_messages(@, l.text, l.phone, l.phone,
                                            "received")
                ELSE add_to_recent_messages(@, l.text, "Katyayani Organics",
                                            l.phone, "sent")]
         /\ loc' = [loc EXCEPT ![i] = l]
         /\ call' = [call EXCEPT ![i] = [c EXCEPT !.bufAdds = @ + 1,
                                                  !.done = TRUE]]
         /\ pc' = [pc EXCEPT ![i] = NextPc(l)]
         /\ api_logs' = log_api_call(api_logs)

\* store_conversation_with_message, step 1: POST messages
ScwmMsgPost(i, o) ==
    /\ pc[i] = "m_post"
    /\ LET phone_clean == Normalize(loc[i].phone)
           gen == loc[i].message_id = NoId
           mid == IF gen THEN <<"uuid", nextId>> ELSE loc[i].message_id
           inb == loc[i].mode = "inbound"
           row == [phone |-> phone_clean, message |-> loc[i].text,
                   direction |-> IF inb THEN "inbound" ELSE "outbound",
                   status |-> IF inb THEN "received" ELSE "sent",
                   sender_name |-> Sender(loc[i].mode),
                   sender_type |-> IF inb THEN "customer" ELSE "agent",
                   message_id |-> mid, error_message |-> None]
           l == [loc[i] EXCEPT !.message_id = mid, !.msg_success = (o = "ok"),
                               !.lead_id = NoLead]
           c == IF o # "ok" THEN call[i]
                ELSE IF inb THEN [call[i] EXCEPT !.inMsg = @ + 1]
                ELSE [call[i] EXCEPT !.outMsg = @ + 1]
       IN  /\ nextId' = IF gen THEN nextId + 1 ELSE nextId
           /\ IF o = "ok"
              THEN /\ messages' = Append(messages, row)
                   /\ applied' = Append(applied, <<>>)
              ELSE UNCHANGED <<messages, applied>>
           /\ IF o = "exception"
              THEN ScwmReturn(i, l, c, FALSE)
              ELSE /\ loc' = [loc EXCEPT ![i] = l]
                   /\ call' = [call EXCEPT ![i] = c]
                   /\ pc' = [pc EXCEPT ![i] = "l_get"]
                   /\ UNCHANGED <<recent_messages, api_logs>>
    /\ failures' = Count(failures, o)
    /\ UNCHANGED <<leads, conversations, response, response_body, requests, templates, dropped,
                   units>>

\* store_conversation_with_message, step 2: GET leads?phone=eq.<phone>&limit=1
\* (no ORDER BY: any matching row may come first)
ScwmLeadGet(i, o) ==
    /\ pc[i] = "l_get"
    /\ LET ex == LeadsByPhone(leads, Normalize(loc[i].phone))
       IN  IF o = "ok" /\ ex # {}
           THEN \E j \in ex :
                  /\ loc' = [loc EXCEPT ![i].lead_id = leads[j].id]
                  /\ pc' = [pc EXCEPT ![i] = "c_post"]
                  /\ UNCHANGED <<call, recent_messages, api_logs>>
           ELSE IF o = "ok"
           THEN /\ pc' = [pc EXCEPT ![i] = "l_post"]
                /\ call' = [call EXCEPT ![i].lookup = "empty"]
                /\ UNCHANGED <<loc, recent_messages, api_logs>>
           ELSE IF o = "http_error"
           THEN /\ pc' = [pc EXCEPT ![i] = "c_post"]
                /\ UNCHANGED <<loc, call, recent_messages, api_logs>>
           ELSE ScwmReturn(i, loc[i], call[i], FALSE)
    /\ failures' = Count(failures, o)
    /\ UNCHANGED <<leads, messages, conversations, response, response_body, nextId, requests, templates,
                   applied, dropped,
                   units>>

\* store_conversation_with_message, step 2: POST leads
ScwmLeadPost(i, o) ==
    /\ pc[i] = "l_post"
    /\ IF o = "ok"
       THEN /\ leads' = Append(leads,
                    [id |-> Len(leads) + 1, phone |-> Normalize(loc[i].phone),
                     name |-> "Lead", status |-> "active"])
            /\ loc' = [loc EXCEPT ![i].lead_id = Len(leads) + 1]
            /\ call' = [call EXCEPT ![i].lead = @ + 1, ![i].lookup = "none"]
            /\ pc' = [pc EXCEPT ![i] = "c_post"]
            /\ UNCHANGED <<recent_messages, api_logs>>
       ELSE IF o = "http_error"
       THEN /\ pc' = [pc EXCEPT ![i] = "c_post"]
            /\ call' = [call EXCEPT ![i].lookup = "none"]
            /\ UNCHANGED <<leads, loc, recent_messages, api_logs>>
       ELSE /\ leads' = leads
            /\ ScwmReturn(i, loc[i], [call[i] EXCEPT !.lookup = "none"],
                          FALSE)
    /\ failures' = Count(failures, o)
    /\ UNCHANGED <<messages, conversations, response, response_body, nextId, requests, templates,
                   applied, dropped,
                   units>>

\* store_conversation_with_message, step 3: POST conversations when a lead id
\* is at hand, then the return
ScwmConvPost(i, o) ==
    /\ pc[i] = "c_post"
    /\ LET l == loc[i]
           inb == l.mode = "inbound"
           row == [lead_id |-> l.lead_id, phone |-> Normalize(l.phone),
                   message |-> l.text,
                   sender |-> Sender(l.mode),
                   sender_type |-> IF inb THEN "customer" ELSE "agent",
                   direction |-> IF inb THEN "inbound" ELSE "outbound",
                   status |-> IF inb THEN "received" ELSE "sent",
                   message_id |-> l.message_id]
           try == HasLead(l.lead_id)
           write == try /\ o = "ok"
           c == IF ~write THEN call[i]
                ELSE [call[i] EXCEPT !.conv = @ + 1,
                                     !.inConv = IF inb THEN @ + 1 ELSE @]
       IN  /\ try \/ o = "ok"
           /\ conversations' = IF write THEN Append(conversations, row)
                               ELSE conversations
           /\ ScwmReturn(i, l, c, l.msg_success /\ ~(try /\ o = "exception"))
           /\ failures' = IF try THEN Count(failures, o) ELSE failures
    /\ UNCHANGED <<leads, messages, response, response_body, nextId, requests, templates, applied,
                   dropped,
                   units>>

\* send_whatsapp_message for the automatic reply, and its two outcomes in
\* process_incoming_message; the id of the reply is messages[0].id of the
\* provider's answer, "unknown" when the answer has no id key, and a fresh
\* uuid4 (drawn where the row is stored) when the id is null or empty
SendReply(i, o) ==
    /\ pc[i] = "send"
    /\ LET ok == o \in {"ok_id", "ok_noid", "ok_null"}
       IN  IF SendSuccess(o)
           THEN /\ loc' = [loc EXCEPT ![i].mode = "reply",
                                      ![i].text = DefaultReply,
                                      ![i].message_id =
                                          IF o = "ok_id" THEN <<"wamid", nextId>>
                                          ELSE IF o = "ok_noid" THEN <<"unknown">>
                                          ELSE NoId]
                /\ nextId' = IF o = "ok_id" THEN nextId + 1 ELSE nextId
                /\ call' = [call EXCEPT ![i].sends = @ + 1, ![i].sendOk = ok]
                /\ pc' = [pc EXCEPT ![i] = "m_post"]
                /\ UNCHANGED <<api_logs>>
           ELSE /\ call' = [call EXCEPT ![i].sends = @ + 1, ![i].sendOk = ok,
                                        ![i].done = TRUE]
                /\ pc' = [pc EXCEPT ![i] = NextPc(loc[i])]
                /\ api_logs' = log_api_call(api_logs)
                /\ UNCHANGED <<loc, nextId>>
    /\ UNCHANGED <<leads, messages, conversations, templates, recent_messages,
                   response, response_body, requests, applied, failures,
                   dropped,
                   units>>

(* ---------------------------- status event ----------------------------- *)

\* process_message_status with update_message_status
ProcessMessageStatus(i, o) ==
    /\ pc[i] = "pms"
    /\ LET st == Head(loc[i].stats)
           l  == [loc[i] EXCEPT !.stats = Tail(@)]
           hit == { k \in 1..Len(messages) : messages[k].message_id = st.id }
       IN  IF InvalidStatus(st)
           THEN /\ loc' = [loc EXCEPT ![i] = l]
                /\ pc' = [pc EXCEPT ![i] = NextPc(l)]
                /\ UNCHANGED <<messages, applied, api_logs, failures, dropped>>
           ELSE /\ loc' = [loc EXCEPT ![i] =
                              [l EXCEPT !.unmatched = (@ \/ hit = {})]]
                /\ pc' = [pc EXCEPT ![i] = NextPc(l)]
                /\ IF o = "ok"
                   THEN /\ messages' = PatchMessages(messages, st.id,
                                           status_map(st.status), st.error)
                        /\ applied' = [k \in 1..Len(applied) |->
                                          IF k \in hit
                                          THEN Append(applied[k], st.status)
                                          ELSE applied[k]]
                   ELSE UNCHANGED <<messages, applied>>
                /\ api_logs' = log_api_call(api_logs)
                /\ failures' = Count(failures, o)
                /\ dropped' = IF hit = {} THEN dropped \cup {st.id} ELSE dropped
    /\ UNCHANGED <<leads, conversations, recent_messages, response, response_body, nextId,
                   requests, templates, call,
                   units>>

(* ---------------------------- template status -------------------------- *)

\* process_template_status_update: the PATCH of the template named by the
\* event, then log_api_call
ProcessTemplateStatus(i, o) ==
    /\ pc[i] = "tsu"
    /\ LET t == Head(loc[i].tmpl)
           l == [loc[i] EXCEPT !.tmpl = <<>>]
       IN  /\ loc' = [loc EXCEPT ![i] = l]
           /\ pc' = [pc EXCEPT ![i] = NextPc(l)]
           /\ IF InvalidTemplateEvent(t)
              THEN /\ o = "ok"
                   /\ UNCHANGED <<templates, api_logs, failures>>
              ELSE /\ templates' =
                        IF o = "ok"
                        THEN PatchTemplates(templates, t.message_template_name,
                                            template_status_map(t.event), t.reason)
                        ELSE templates
                   /\ api_logs' = log_api_call(api_logs)
                   /\ failures' = Count(failures, o)
    /\ UNCHANGED <<leads, messages, conversations, recent_messages, response,
                   response_body, nextId, requests, applied, call, dropped,
                   units>>

(* ---------------------------- API endpoints --------------------------- *)

\* request.phone of the API requests: a bare number, and the same number
\* written with "+", country code and a blank
ApiPhones == { <<"5">>, <<"+", "9", "1", " ", "5">> }

\* request.message of POST /send-message
ApiText == "Your order has shipped"

\* "stored_in_supabase": db_success of the /send-message response
StoredFlag(db_success) == IF db_success THEN "stored" ELSE "not_stored"

\* POST /send-message with the WhatsApp credentials configured:
\* normalization, send_whatsapp_message, and on success the buffer entry and
\* the call of store_conversation_with_message; on failure log_api_call and
\* the 500 response
SendMessage(i, phone, o) ==
    /\ pc[i] = "idle"
    /\ requests < MaxRequests
    /\ requests' = requests + 1
    /\ LET p == Normalize(phone)
       IN  IF SendSuccess(o)
           THEN /\ loc' = [loc EXCEPT ![i] =
                       [IdleLoc EXCEPT !.phone = p, !.mode = "api",
                                       !.text = ApiText,
                                       !.message_id =
                                           IF o = "ok_id" THEN <<"wamid", nextId>>
                                           ELSE IF o = "ok_noid" THEN <<"unknown">>
                                           ELSE NoId]]
                /\ nextId' = IF o = "ok_id" THEN nextId + 1 ELSE nextId
                /\ recent_messages' = [recent_messages EXCEPT ![i] =
                       add_to_recent_messages(@, ApiText, "Agent", p, "sent")]
                /\ call' = [call EXCEPT ![i] =
                       [NoCall EXCEPT !.sends = 1, !.sendOk = TRUE,
                                      !.bufAdds = 1, !.before = failures]]
                /\ pc' = [pc EXCEPT ![i] = "m_post"]
                /\ response' = [response EXCEPT ![i] = NoResponse]
                /\ response_body' = [response_body EXCEPT ![i] = None]
                /\ UNCHANGED api_logs
           ELSE /\ api_logs' = log_api_call(api_logs)
                /\ response' = [response EXCEPT ![i] = 500]
                /\ response_body' = [response_body EXCEPT ![i] = "error"]
                /\ UNCHANGED <<loc, nextId, recent_messages, call, pc>>
    /\ UNCHANGED <<leads, messages, conversations, templates, applied,
                   failures, dropped, units>>

\* end of send_message: log_api_call("/send-message", "POST", phone, 200)
\* and the 200 response carrying stored_in_supabase
SendMessageEnd(i) ==
    /\ pc[i] = "sm_end"
    /\ api_logs' = log_api_call(api_logs)
    /\ response' = [response EXCEPT ![i] = 200]
    /\ response_body' = [response_body EXCEPT ![i] =
                            StoredFlag(loc[i].db_success)]
    /\ pc' = [pc EXCEPT ![i] = "idle"]
    /\ loc' = [loc EXCEPT ![i] = IdleLoc]
    /\ call' = [call EXCEPT ![i] = NoCall]
    /\ UNCHANGED <<leads, messages, conversations, templates, recent_messages,
                   nextId, requests, applied, failures, dropped, units>>

\* POST /leads/create: store_lead is called with request.phone as it came
CreateLead(i, phone) ==
    /\ pc[i] = "idle"
    /\ requests < MaxRequests
    /\ requests' = requests + 1
    /\ loc' = [loc EXCEPT ![i] = [IdleLoc EXCEPT !.phone = phone,
                                                 !.mode = "lead"]]
    /\ call' = [call EXCEPT ![i] = [NoCall EXCEPT !.before = failures]]
    /\ pc' = [pc EXCEPT ![i] = "sl_get"]
    /\ response' = [response EXCEPT ![i] = NoResponse]
    /\ response_body' = [response_body EXCEPT ![i] = None]
    /\ UNCHANGED <<leads, messages, conversations, templates, api_logs,
                   recent_messages, nextId, applied, failures, dropped,
                   units>>

\* end of create_lead: log_api_call and 201 when store_lead reported
\* success, the 500 response otherwise
CreateLeadEnd(i) ==
    /\ pc[i] = "cl_end"
    /\ IF call[i].slOk
       THEN /\ api_logs' = log_api_call(api_logs)
            /\ response' = [response EXCEPT ![i] = 201]
            /\ response_body' = [response_body EXCEPT ![i] = "lead"]
       ELSE /\ api_logs' = api_logs
            /\ response' = [response EXCEPT ![i] = 500]
            /\ response_body' = [response_body EXCEPT ![i] = "error"]
    /\ pc' = [pc EXCEPT ![i] = "idle"]
    /\ loc' = [loc EXCEPT ![i] = IdleLoc]
    /\ call' = [call EXCEPT ![i] = NoCall]
    /\ UNCHANGED <<leads, messages, conversations, templates, recent_messages,
                   nextId, requests, applied, failures, dropped, units>>

(* ---------------------------- specification ---------------------------- *)

\* One service instance receiving message and status deliveries.  Every
\* repository and provider call of a handler is a blocking `requests` call,
\* so one process serves one webhook request at a time; up to MaxFailures
\* repository calls fail.
Next ==
    \/ \E body \in DeliveryBodies : Receive("a", body, NoSignature)
    \/ WebhookEnd("a")
    \/ PimBegin("a")
    \/ \E o \in Outcomes(failures) : StoreLeadGet("a", o)
    \/ \E o \in Outcomes(failures) : StoreLeadPost("a", o)
    \/ \E o \in Outcomes(failures) : ScwmMsgPost("a", o)
    \/ \E o \in Outcomes(failures) : ScwmLeadGet("a", o)
    \/ \E o \in Outcomes(failures) : ScwmLeadPost("a", o)
    \/ \E o \in Outcomes(failures) : ScwmConvPost("a", o)
    \/ \E o \in DeliveryOutcomes : SendReply("a", o)
    \/ \E o \in Outcomes(failures) : ProcessMessageStatus("a", o)

Spec == Init /\ [][Next]_vars

\* One service instance receiving requests of every shape on both webhook
\* routes: verification requests, bodies that are no JSON object, envelopes
\* with and without their fields, any signature header, batches, and
\* template-status updates.  Up to MaxFailures PATCH calls (message status,
\* template status) fail; the calls that store a message succeed (so the
\* lead insert of store_conversation_with_message never runs).
NextEndpoint ==
    \/ \E m \in Modes, t \in Tokens, c \in Challenges :
          VerifyWebhook("a", m, t, c)
    \/ \E body \in EnvelopeBodies, sig \in Signatures : Receive("a", body, sig)
    \/ WebhookEnd("a")
    \/ PimBegin("a")
    \/ StoreLeadGet("a", "ok")
    \/ StoreLeadPost("a", "ok")
    \/ ScwmMsgPost("a", "ok")
    \/ ScwmLeadGet("a", "ok")
    \/ ScwmConvPost("a", "ok")
    \/ \E o \in SendOutcomes : SendReply("a", o)
    \/ \E o \in Outcomes(failures) : ProcessMessageStatus("a", o)
    \/ \E o \in Outcomes(failures) : ProcessTemplateStatus("a", o)

SpecEndpoint == Init /\ [][NextEndpoint]_vars

\* the balancer hands a request to instance "a" unless it is busy
Balanced(i) == i = "a" \/ pc["a"] # "idle"

\* Several service instances sharing one store: their REST calls interleave
\* freely; every repository call succeeds (so store_lead has inserted the
\* Lead before store_conversation_with_message looks it up, and the latter's
\* own insert never runs).
NextMulti ==
    \/ \E i \in Instances, body \in DeliveryBodies :
          /\ Balanced(i)
          /\ requests < MaxConcurrent
          /\ Receive(i, body, NoSignature)
    \/ \E i \in Instances : WebhookEnd(i)
    \/ \E i \in Instances : PimBegin(i)
    \/ \E i \in Instances : StoreLeadGet(i, "ok")
    \/ \E i \in Instances : StoreLeadPost(i, "ok")
    \/ \E i \in Instances : ScwmMsgPost(i, "ok")
    \/ \E i \in Instances : ScwmLeadGet(i, "ok")
    \/ \E i \in Instances : ScwmConvPost(i, "ok")
    \/ \E i \in Instances, o \in DeliveryOutcomes : SendReply(i, o)
    \/ \E i \in Instances : ProcessMessageStatus(i, "ok")

SpecMulti == Init /\ [][NextMulti]_vars

\* status deliveries for the message a /send-message request sent first, and
\* the delivery of one inbound message
ApiBodies ==
    { Payload("whatsapp_business_account", TRUE, <<>>,
              <<StatusOf(<<"wamid", 1>>, st, None)>>, <<>>) :
        st \in {"delivered", "read"} }
    \cup
    { Payload("whatsapp_business_account", TRUE, <<Hello>>, <<>>, <<>>) }

\* One service instance serving the API next to the webhook: POST
\* /send-message, POST /leads/create, status deliveries and an inbound
\* message; up to MaxFailures repository calls fail.
NextApi ==
    \/ \E phone \in ApiPhones, o \in DeliveryOutcomes :
          SendMessage("a", phone, o)
    \/ SendMessageEnd("a")
    \/ \E phone \in ApiPhones : CreateLead("a", phone)
    \/ CreateLeadEnd("a")
    \/ \E body \in ApiBodies : Receive("a", body, NoSignature)
    \/ WebhookEnd("a")
    \/ PimBegin("a")
    \/ \E o \in Outcomes(failures) : StoreLeadGet("a", o)
    \/ \E o \in Outcomes(failures) : StoreLeadPost("a", o)
    \/ \E o \in Outcomes(failures) : ScwmMsgPost("a", o)
    \/ \E o \in Outcomes(failures) : ScwmLeadGet("a", o)
    \/ \E o \in Outcomes(failures) : ScwmLeadPost("a", o)
    \/ \E o \in Outcomes(failures) : ScwmConvPost("a", o)
    \/ \E o \in DeliveryOutcomes : SendReply("a", o)
    \/ \E o \in Outcomes(failures) : ProcessMessageStatus("a", o)

SpecApi == Init /\ [][NextApi]_vars

\* ---- the helpers on their own: phone normalization, the in-memory buffer
\* ---- and template creation

\* longest phone input handed to the normalization
MaxLen == 3

\* add_to_recent_messages calls made on top of the buffer's starting contents
MaxAdds == 3

\* the characters of a phone input: "+", two kinds of whitespace and digits
PhoneChars == {"+", " ", "\t", "9", "1", "5"}

\* str.isspace() on the characters above
Whitespace == {" ", "\t"}

RECURSIVE PhoneInputs(_)
\* every phone input of at most n characters
PhoneInputs(n) ==
    IF n = 0 THEN {<<>>}
    ELSE LET shorter == PhoneInputs(n - 1)
         IN  shorter \cup { Append(p, c) : p \in shorter, c \in PhoneChars }

\* the two customers whose messages are in the buffer
PhoneA == <<"9", "1", "5">>
PhoneB == <<"9", "1", "6">>

\* the buffer after n <= MAX_RECENT_MESSAGES inbound messages, alternating
\* between the customers: entry k is what add_to_recent_messages appended
Filled(n) ==
    [k \in 1..n |->
        LET phone == IF k % 2 = 1 THEN PhoneA ELSE PhoneB
        IN  add_to_recent_messages(<<>>, "Hi", phone, phone, "received")[1]]

\* buffer sizes at the start: empty, and one below the cap
Prefills == {0, MAX_RECENT_MESSAGES - 1}

\* limit: int = Query(20, ge=1, le=100): the smallest, the default, the largest
Limits == {1, 20, MAX_RECENT_MESSAGES}

\* filtered[-limit:] of Python: the last limit elements, all of them for 0
LastN(s, limit) ==
    IF limit = 0 \/ limit >= Len(s) THEN s
    ELSE SubSeq(s, Len(s) - limit + 1, Len(s))

\* get_recent_messages: filter on the phone if one is given, then slice
get_recent_messages(buf, phone, limit) ==
    LET filtered == IF phone # NoPhone
                    THEN SelectSeq(buf, LAMBDA m : m.phone = phone)
                    ELSE buf
    IN  LastN(filtered, limit)

\* max_retries = 2
max_retries == 2

\* a timeout handler that always goes round the loop again
MayRetry_Always(attempt) == TRUE

\* `if attempt < max_retries - 1:` of the timeout handler
MayRetry(attempt) == attempt < max_retries - 1

\* what one requests.post of create_whatsapp_template can come to: 200 or
\* 201 with a JSON body, 200 with a body that is no JSON (response.json()
\* raises, and a handler returns the failure), another status code, a
\* timeout, another network error
PostOutcomes ==
    {"200", "201", "200_malformed", "http_error", "timeout", "network_error"}

\* one helper is exercised per run: a normalization of some phone input, a
\* buffer with some starting contents, or a template creation
InitUnits ==
    /\ leads = <<>>
    /\ messages = <<>>
    /\ conversations = <<>>
    /\ templates = << [template_name |-> "t1", status |-> "PENDING",
                       rejection_reason |-> None],
                      [template_name |-> "t2", status |-> "PENDING",
                       rejection_reason |-> None] >>
    /\ api_logs = 0
    /\ pc = [i \in Instances |-> "idle"]
    /\ loc = [i \in Instances |-> IdleLoc]
    /\ response = [i \in Instances |-> NoResponse]
    /\ response_body = [i \in Instances |-> None]
    /\ nextId = 1
    /\ requests = 0
    /\ applied = <<>>
    /\ call = [i \in Instances |-> NoCall]
    /\ failures = 0
    /\ dropped = {}
    /\ got = NoGot
    /\ \/ /\ norm \in { [NoNorm EXCEPT !.pc = "start", !.raw = p] :
                            p \in PhoneInputs(MaxLen) }
          /\ recent_messages = [i \in Instances |-> <<>>]
          /\ added = NoAdded
          /\ ct = NoCt
       \/ /\ norm = NoNorm
          /\ \E n \in Prefills :
                /\ recent_messages =
                       [i \in Instances |-> IF i = "a" THEN Filled(n) ELSE <<>>]
                /\ added = [on |-> TRUE, entries |-> Filled(n), calls |-> 0]
          /\ ct = NoCt
       \/ /\ norm = NoNorm
          /\ recent_messages = [i \in Instances |-> <<>>]
          /\ added = NoAdded
          /\ ct \in { [NoCt EXCEPT !.pc = "start", !.configured = c] :
                          c \in BOOLEAN }

\* everything but the helpers' own state
Rest == <<leads, messages, conversations, templates, api_logs, pc, loc,
          response, response_body, nextId, requests, applied, call, failures,
          dropped>>

\* the normalization of a raw phone
NormalizeOnce ==
    /\ norm.pc = "start"
    /\ norm' = [norm EXCEPT !.pc = "once", !.once = Normalize(norm.raw)]
    /\ UNCHANGED <<Rest, recent_messages, added, got, ct>>

\* the normalization of an already normalized phone (the endpoint
\* normalizes, then store_conversation_with_message normalizes again)
NormalizeTwice ==
    /\ norm.pc = "once"
    /\ norm' = [norm EXCEPT !.pc = "twice", !.twice = Normalize(norm.once)]
    /\ UNCHANGED <<Rest, recent_messages, added, got, ct>>

\* one add_to_recent_messages call, for an inbound or an outbound message
AddToRecent(i, phone, direction) ==
    /\ added.on
    /\ added.calls < MaxAdds
    /\ LET sender == IF direction = "sent" THEN "Agent" ELSE phone
           entry == add_to_recent_messages(<<>>, "Hi", sender, phone,
                                           direction)[1]
       IN  /\ recent_messages' = [recent_messages EXCEPT ![i] =
                 add_to_recent_messages(@, "Hi", sender, phone, direction)]
           /\ added' = [added EXCEPT !.entries = Append(@, entry),
                                     !.calls = @ + 1]
    /\ UNCHANGED <<Rest, norm, got, ct>>

\* GET /recent-messages without a database: one get_recent_messages call
GetRecent(i, phone, limit) ==
    /\ added.on
    /\ got' = [phone |-> phone, limit |-> limit, of |-> recent_messages[i],
               result |-> get_recent_messages(recent_messages[i], phone,
                                              limit)]
    /\ UNCHANGED <<Rest, recent_messages, norm, added, ct>>

\* create_whatsapp_template up to the retry loop
CtBegin ==
    /\ ct.pc = "start"
    /\ ct' = IF ~ct.configured
             THEN [ct EXCEPT !.pc = "done", !.success = FALSE,
                             !.result = "empty"]
             ELSE [ct EXCEPT !.pc = "post", !.attempt = 0]
    /\ UNCHANGED <<Rest, recent_messages, norm, added, got>>

\* one pass of the retry loop: the POST and what becomes of it
CtPost(o) ==
    /\ ct.pc = "post"
    /\ ct.attempt < max_retries
    /\ LET posted == [ct EXCEPT !.outcomes = Append(@, o)]
       IN  ct' =
             IF o \in {"200", "201"}
             THEN [posted EXCEPT !.pc = "done", !.success = TRUE,
                                 !.result = "PENDING_REVIEW"]
             ELSE IF o = "http_error"
             THEN [posted EXCEPT !.pc = "done", !.success = FALSE,
                                 !.result = "error"]
             ELSE IF o = "timeout"
             THEN IF MayRetry(ct.attempt)
                  THEN [posted EXCEPT !.attempt = @ + 1]
                  ELSE [posted EXCEPT !.pc = "done", !.success = FALSE,
                                      !.result = "timeout"]
             ELSE [posted EXCEPT !.pc = "done", !.success = FALSE,
                                 !.result = "network_error"]
    /\ UNCHANGED <<Rest, recent_messages, norm, added, got>>

\* a step of create_whatsapp_template
CtStep == CtBegin \/ \E o \in PostOutcomes : CtPost(o)

NextUnits ==
    \/ NormalizeOnce
    \/ NormalizeTwice
    \/ \E phone \in {PhoneA, PhoneB}, direction \in {"received", "sent"} :
          AddToRecent("a", phone, direction)
    \/ \E phone \in {NoPhone, PhoneA, PhoneB}, limit \in Limits :
          GetRecent("a", phone, limit)
    \/ CtBegin
    \/ \E o \in PostOutcomes : CtPost(o)

\* the helpers run to their end: a requests.post returns or raises within
\* its timeout
SpecUnits == InitUnits /\ [][NextUnits]_vars /\ WF_vars(CtStep)

(* ---------------------------- properties ------------------------------- *)

\* Lead rows with phone key p
LeadRows(p) == { j \in 1..Len(leads) : leads[j].phone = p }

\* the event has no sender identifier or no text body
Lacks(ev) == ev.from = <<>> \/ ev.text = ""

Last(s) == s[Len(s)]

\* the status a Message row is created with
Created(direction) == IF direction = "inbound" THEN "received" ELSE "sent"

\* sent->sent, delivered->delivered, read->seen, failed->failed, else unchanged
Expected(s) ==
    CASE s = "sent"      -> "sent"
      [] s = "delivered" -> "delivered"
      [] s = "read"      -> "seen"
      [] s = "failed"    -> "failed"
      [] OTHER           -> s

\* instance i takes its status-event step
StatusStep(i) == pc[i] = "pms" /\ loc'[i] # loc[i]

\* message rows a status event refers to
Referenced(st) == { k \in 1..Len(messages) : messages[k].message_id = st.id }

\* two inbound Message rows of the same delivery: same ID, same phone key
Redelivered(k1, k2) ==
    /\ k1 < k2
    /\ messages[k1].direction = "inbound"
    /\ messages[k2].direction = "inbound"
    /\ messages[k1].message_id = messages[k2].message_id
    /\ messages[k1].phone = messages[k2].phone

\* C1: once the same inbound-message event (same sender, same provider
\* message ID) has been processed twice in sequence with every repository
\* call succeeding, there is exactly one Lead row for its phone key.
C1_Theorem ==
    (failures = 0 /\ pc["a"] = "idle") =>
        \A k1, k2 \in 1..Len(messages) :
            Redelivered(k1, k2) =>
                Cardinality(LeadRows(messages[k1].phone)) = 1

C1_Witness ==
    /\ failures = 0
    /\ pc["a"] = "idle"
    /\ response["a"] = 200
    /\ \E k1, k2 \in 1..Len(messages) :
          /\ Redelivered(k1, k2)
          /\ messages[k1].message_id = <<"m", 1>>
          /\ Cardinality(LeadRows(messages[k1].phone)) = 1

\* C2: under every interleaving of concurrent inbound-message operations
\* for one phone key, on instances sharing one store, the Lead store never
\* holds more than one Lead row with that key.
C2_Claim ==
    \A j1, j2 \in 1..Len(leads) :
        leads[j1].phone = leads[j2].phone => j1 = j2

\* C3: in every reachable state a message ID identifies at most one
\* Message row, redelivery of an event and outbound sends included.
C3_Claim ==
    \A k1, k2 \in 1..Len(messages) :
        messages[k1].message_id = messages[k2].message_id => k1 = k2

\* C4: a status event that references an existing Message changes only the
\* status field of that Message: its other fields (a stored error message
\* too, when the event carries no error), every other Message row, and all
\* Lead and Conversation rows stay as they were.
C4_Claim ==
    [][\A i \in Instances :
         StatusStep(i) =>
           LET st == Head(loc[i].stats)
           IN  Referenced(st) # {} =>
                 /\ leads' = leads
                 /\ conversations' = conversations
                 /\ Len(messages') = Len(messages)
                 /\ \A k \in 1..Len(messages) :
                      IF k \in Referenced(st)
                      THEN [messages'[k] EXCEPT
                              !.status = messages[k].status,
                              !.error_message =
                                  IF st.error = None THEN @
                                  ELSE messages[k].error_message]
                           = messages[k]
                      ELSE messages'[k] = messages[k]]_vars

\* a status event whose ID matches no Message is answered 200 and is never
\* applied later: a row no status event was applied to has the status it
\* was created with
DroppedForGood ==
    /\ \A i \in Instances :
         (pc[i] = "wh_end" /\ pc'[i] = "idle" /\ loc[i].unmatched)
             => response'[i] = 200
    /\ \A k \in 1..Len(messages') :
         applied'[k] = <<>> =>
             messages'[k].status = Created(messages'[k].direction)

\* C5 as stated: a status event whose message ID matches no stored Message
\* creates no row in any table (leads, messages, conversations, api_logs),
\* is answered 200, and is dropped for good.
C5_Claim ==
    [][/\ \A i \in Instances :
            (StatusStep(i) /\ Referenced(Head(loc[i].stats)) = {}) =>
                /\ leads' = leads
                /\ messages' = messages
                /\ conversations' = conversations
                /\ api_logs' = api_logs
       /\ DroppedForGood]_vars

\* C5, amended: a status event whose message ID matches no stored Message
\* creates and changes no Lead, Message or Conversation row (its api_logs
\* audit row aside), is answered 200, and is dropped for good.
C5_Theorem ==
    [][/\ \A i \in Instances :
            (StatusStep(i) /\ Referenced(Head(loc[i].stats)) = {}) =>
                /\ leads' = leads
                /\ messages' = messages
                /\ conversations' = conversations
       /\ DroppedForGood]_vars

C5_Witness ==
    /\ pc["a"] = "idle"
    /\ response["a"] = 200
    /\ \E k \in 1..Len(messages) :
          /\ messages[k].message_id \in dropped
          /\ applied[k] = <<>>
          /\ messages[k].status = "received"

\* C6: last write wins, no ordering check: the stored status of a Message
\* is the mapped status of the status event applied to it most recently.
C6_Theorem ==
    \A k \in 1..Len(messages) :
        applied[k] # <<>> =>
            messages[k].status = status_map(Last(applied[k]))

C6_Witness ==
    \E k \in 1..Len(messages) :
        /\ applied[k] = <<"failed", "read">>
        /\ messages[k].status = "seen"

\* C7: the status a status event writes is sent for sent, delivered for
\* delivered, seen for read, failed for failed, and the provider's value
\* itself for anything else.
C7_Theorem ==
    [][\A i \in Instances :
         StatusStep(i) =>
           \A k \in 1..Len(messages) :
               applied'[k] # applied[k] =>
                   messages'[k].status = Expected(Head(loc[i].stats).status)]_vars

C7_Witness ==
    \E k \in 1..Len(messages) :
        /\ applied[k] = <<"read", "deleted">>
        /\ messages[k].status = "deleted"

\* C8 as stated: one process_incoming_message call on an event with sender
\* and text writes exactly one inbound Message row, at most one Lead row,
\* at most one outbound Message row and zero to two Conversation turns.
C8_Claim ==
    \A i \in Instances :
        (call[i].done /\ ~Lacks(call[i].ev)) =>
            /\ call[i].inMsg = 1
            /\ call[i].lead <= 1
            /\ call[i].outMsg <= 1
            /\ call[i].conv \in 0..2

\* C8, amended: such a call writes at most one inbound Message row (exactly
\* one when no repository call failed), at most one Lead row, at most one
\* outbound Message row and zero to two Conversation turns.
C8_Theorem ==
    \A i \in Instances :
        (call[i].done /\ ~Lacks(call[i].ev)) =>
            /\ call[i].inMsg <= 1
            /\ failures = 0 => call[i].inMsg = 1
            /\ call[i].lead <= 1
            /\ call[i].outMsg <= 1
            /\ call[i].conv \in 0..2

C8_Witness ==
    \E i \in Instances :
        /\ call[i].done
        /\ ~Lacks(call[i].ev)
        /\ call[i].inMsg = 0
        /\ call[i].sends = 1

\* C9: an inbound message event without sender identifier or without text
\* is aborted silently: no Lead, Message or Conversation row, no buffer
\* entry, no send, and the webhook request still ends with 200.
C9_Theorem ==
    [][\A i \in Instances :
         /\ (pc[i] = "pim" /\ loc'[i] # loc[i] /\ Lacks(Head(loc[i].msgs))) =>
               /\ leads' = leads
               /\ messages' = messages
               /\ conversations' = conversations
               /\ recent_messages' = recent_messages
               /\ pc'[i] \in {"pim", "pms", "wh_end"}
         /\ (pc[i] = "wh_end" /\ pc'[i] = "idle" /\ Lacks(call[i].ev)) =>
               /\ response'[i] = 200
               /\ call[i].sends = 0
               /\ call[i].bufAdds = 0
               /\ call[i].inMsg + call[i].outMsg + call[i].lead + call[i].conv = 0
      ]_vars

C9_Witness ==
    \E i \in Instances :
        /\ pc[i] = "wh_end"
        /\ call[i].done
        /\ call[i].ev.from # <<>>
        /\ call[i].ev.text = ""
        /\ call[i].sends = 0

\* C10 as stated: the turn of an inbound message is appended only if
\* store_lead (step 3) succeeded.
C10_Claim ==
    \A i \in Instances :
        pc[i] = "send" => (call[i].inConv = 1 => call[i].slOk)

\* C10, amended: the turn of an inbound message is appended only if the
\* lead lookup or insert inside store_conversation_with_message produced a
\* lead id, whatever store_lead returned; when it produced none, no turn is
\* appended and the Message row inserted before it is still there.
C10_Theorem ==
    \A i \in Instances :
        pc[i] = "send" =>
            /\ call[i].inConv = 1 =>
                 /\ loc[i].lead_id # NoLead
                 /\ \E j \in 1..Len(leads) : leads[j].id = loc[i].lead_id
                 /\ \E c \in 1..Len(conversations) :
                       /\ conversations[c].lead_id = loc[i].lead_id
                       /\ conversations[c].message_id = loc[i].message_id
            /\ loc[i].lead_id = NoLead =>
                 /\ call[i].inConv = 0
                 /\ loc[i].msg_success =>
                      \E k \in 1..Len(messages) :
                          /\ messages[k].message_id = loc[i].message_id
                          /\ messages[k].direction = "inbound"

C10_Witness ==
    \E i \in Instances :
        /\ pc[i] = "send"
        /\ loc[i].lead_id = NoLead
        /\ loc[i].msg_success
        /\ call[i].inMsg = 1
        /\ call[i].inConv = 0

\* C11: the automatic reply is unconditional: a process_incoming_message
\* call on an event with sender and text attempts exactly one outbound send,
\* whether or not the Lead upsert, the inbound Message write or the turn
\* append succeeded, and never more than one.
C11_Theorem ==
    \A i \in Instances :
        /\ call[i].sends <= 1
        /\ (call[i].done /\ ~Lacks(call[i].ev)) => call[i].sends = 1

C11_Witness ==
    \E i \in Instances :
        /\ call[i].done
        /\ ~Lacks(call[i].ev)
        /\ ~call[i].slOk
        /\ failures > 0
        /\ call[i].inMsg = 1
        /\ call[i].sends = 1

\* C12: an outbound reply Message row (direction outbound, status sent,
\* sender agent) and its Conversation turn are written only after the send
\* reported success; a call whose send failed has written no outbound
\* Message row and no second turn.
C12_Theorem ==
    /\ \A i \in Instances :
         /\ (call[i].outMsg > 0 \/ call[i].conv > call[i].inConv) =>
                call[i].sendOk
         /\ (call[i].done /\ call[i].sends = 1 /\ ~call[i].sendOk) =>
                /\ call[i].outMsg = 0
                /\ call[i].conv = call[i].inConv
    /\ \A k \in 1..Len(messages) :
         (messages[k].direction = "outbound" /\ applied[k] = <<>>) =>
             /\ messages[k].status = "sent"
             /\ messages[k].sender_type = "agent"

C12_Witness ==
    \E i \in Instances :
        /\ call[i].done
        /\ call[i].sends = 1
        /\ ~call[i].sendOk
        /\ call[i].inMsg = 1
        /\ call[i].inConv = 1
        /\ call[i].outMsg = 0
        /\ call[i].conv = 1

\* an outbound Message row whose ID is not one the provider assigned
Surrogate(k) ==
    /\ messages[k].direction = "outbound"
    /\ Head(messages[k].message_id) # "wamid"

\* C13: the ID stored for a reply whose provider response carried no
\* message ID differs from the ID of every other stored Message; two such
\* replies never store the same message ID.
C13_Claim ==
    \A k1, k2 \in 1..Len(messages) :
        (Surrogate(k1) /\ k1 # k2) =>
            messages[k1].message_id # messages[k2].message_id

\* no Lead, Message, Conversation or Template row is written or changed and
\* no send is attempted
NoRowsNoSend ==
    /\ leads' = leads
    /\ messages' = messages
    /\ conversations' = conversations
    /\ templates' = templates
    /\ \A i \in Instances : call'[i].sends = call[i].sends

\* C14: POST /webhook with a body that is not valid JSON (text that does
\* not parse, or bytes that are no text) answers 400 and writes no Lead,
\* Message, Conversation or Template row and sends nothing; POST /webhook
\* with an empty body answers 200 and changes nothing.
C14_Claim ==
    [][\A i \in Instances, body \in EnvelopeBodies, sig \in Signatures :
         Receive(i, body, sig) =>
           /\ body.kind \in {"invalid", "undecodable"} =>
                 /\ response'[i] = 400
                 /\ pc'[i] = "idle"
                 /\ NoRowsNoSend
           /\ body.kind = "empty" =>
                 /\ response'[i] = 200
                 /\ pc'[i] = "idle"
                 /\ NoRowsNoSend
                 /\ api_logs' = api_logs]_vars

\* C15: every POST /webhook whose body parses as JSON answers 200, whatever
\* the shape of the JSON and whatever happens while its events are handled.
C15_Claim ==
    [][\A i \in Instances :
         /\ (\E body \in EnvelopeBodies, sig \in Signatures :
                body.kind = "json" /\ Receive(i, body, sig))
               => response'[i] \in {NoResponse, 200}
         /\ pc[i] # "idle" => response'[i] \in {NoResponse, 200}]_vars

\* a JSON object body without its object field or without its entry field
MissingEnvelope(body) ==
    /\ body.kind = "json"
    /\ body.shape = "object"
    /\ body.object = None \/ ~body.entry

WellFormed(ev) == ev.dict /\ ev.from # <<>> /\ ev.text # ""

\* the events of the payload not handled yet when instance i takes a step
\* out of the handling of one event
Pending(i) ==
    LET l == loc[i]
        rest == IF pc[i] = "pim" THEN Tail(l.msgs) ELSE l.msgs
    IN  [msgs |-> rest,
         stats |-> IF pc[i] = "pms" THEN Tail(l.stats) ELSE l.stats]

\* C17: a failure while one inner event of a payload is handled never keeps
\* the remaining events from being handled: when the request is answered,
\* no well-formed event of the payload is left unhandled.
C17_Claim ==
    [][\A i \in Instances :
         (pc[i] # "idle" /\ pc'[i] = "idle") =>
            /\ \A k \in 1..Len(Pending(i).msgs) : ~WellFormed(Pending(i).msgs[k])
            /\ Pending(i).stats = <<>>]_vars

\* C18 as stated: GET /webhook answers 200 with the challenge as its body
\* exactly when the mode is "subscribe" and the token is the configured
\* one; every other verification request answers 403.
C18_Claim ==
    [][\A i \in Instances, m \in Modes, t \in Tokens, c \in Challenges :
         VerifyWebhook(i, m, t, c) =>
            IF m = "subscribe" /\ t = VERIFY_TOKEN
            THEN response'[i] = 200 /\ response_body'[i] = c
            ELSE response'[i] = 403]_vars

\* C18, amended: GET /webhook answers 200 with the challenge as its body
\* exactly when the mode is "subscribe" and the token is the configured
\* one; with mode "subscribe" and a wrong or missing token it answers 403,
\* and with any other or missing mode it answers 400, whatever the token.
C18_Theorem ==
    [][\A i \in Instances, m \in Modes, t \in Tokens, c \in Challenges :
         VerifyWebhook(i, m, t, c) =>
            /\ NoRowsNoSend
            /\ IF m = "subscribe" /\ t = VERIFY_TOKEN
               THEN response'[i] = 200 /\ response_body'[i] = c
               ELSE IF m = "subscribe"
               THEN response'[i] = 403 /\ response_body'[i] # c
               ELSE response'[i] = 400 /\ response_body'[i] # c]_vars

C18_Witness ==
    /\ requests = 1
    /\ api_logs = 1
    /\ response["a"] = 400
    /\ response_body["a"] = "error"

\* C19: signature verification is non-fatal and non-interfering: the state
\* a POST /webhook request leaves behind (rows, response, the events to
\* handle, the header it carried) is the same whichever X-Hub-Signature-256
\* value the signature check is run on, valid, invalid, malformed or absent,
\* and no later step of the request reads the header.
C19_Theorem ==
    [][\A i \in Instances, body \in EnvelopeBodies, sig \in Signatures :
         Receive(i, body, sig) =>
            \A other \in Signatures : ReceiveAs(i, body, sig, other)]_vars

C19_Witness ==
    \E i \in Instances :
        /\ loc[i].x_hub_signature = [prefix |-> "sha256=", hash |-> "bad"]
        /\ pc[i] = "wh_end"
        /\ \E k \in 1..Len(messages) : messages[k].direction = "outbound"
        /\ templates[1].status = "PAUSED"

\* APPROVED, REJECTED, PENDING, PAUSED and DISABLED are stored as they are,
\* LIMIT_EXCEEDED as REJECTED, anything else as it is
ExpectedTemplate(event) ==
    IF event = "LIMIT_EXCEEDED" THEN "REJECTED" ELSE event

\* C20: a template-status event whose PATCH succeeds sets the status of the
\* Template with the event's name to the mapped event, stores the reason
\* exactly when the event carries a non-empty one and leaves a stored reason
\* as it was otherwise; every other Template row, and every row when the
\* PATCH fails or the event lacks its name, stays as it was.
C20_Theorem ==
    [][\A i \in Instances :
         (pc[i] = "tsu" /\ pc'[i] # "tsu") =>
            LET t == Head(loc[i].tmpl)
            IN  /\ Len(templates') = Len(templates)
                /\ \A k \in 1..Len(templates) :
                     IF /\ templates[k].template_name = t.message_template_name
                        /\ failures' = failures
                     THEN /\ templates'[k].template_name = templates[k].template_name
                          /\ templates'[k].status = ExpectedTemplate(t.event)
                          /\ templates'[k].rejection_reason =
                                IF t.reason # "" THEN t.reason
                                ELSE templates[k].rejection_reason
                     ELSE templates'[k] = templates[k]]_vars

C20_Witness ==
    /\ templates[1].template_name = "t1"
    /\ templates[1].status = "APPROVED"
    /\ templates[1].rejection_reason = "R"
    /\ templates[2].status = "PENDING"

\* ---- phone normalization

\* the characters of p
Chars(p) == { p[k] : k \in 1..Len(p) }

\* C21: for every phone input, the normalized phone begins with the default
\* prefix "91" and holds no "+" and no whitespace character of any kind
C21_Claim ==
    norm.pc \in {"once", "twice"} =>
        /\ StartsWith(norm.once, DefaultPrefix)
        /\ "+" \notin Chars(norm.once)
        /\ Chars(norm.once) \cap Whitespace = {}

\* C22: normalizing a normalized phone gives the same phone
C22_Theorem ==
    norm.pc = "twice" => norm.twice = norm.once

\* a phone with a "+", a blank and no prefix has been normalized twice
C22_Witness ==
    /\ norm.pc = "twice"
    /\ norm.raw = <<"+", "5", " ">>
    /\ norm.once = <<"9", "1", "5">>
    /\ norm.twice = norm.once

\* ---- the in-memory buffer

\* the smaller of two numbers
Min(a, b) == IF a <= b THEN a ELSE b

\* s is made of the last entries of t, in t's order
Newest(s, t) ==
    /\ Len(s) <= Len(t)
    /\ \A k \in 1..Len(s) : s[k] = t[Len(t) - Len(s) + k]

\* the entries of buf a get_recent_messages call for this phone selects from
Matching(buf, phone) ==
    IF phone = NoPhone THEN buf
    ELSE SelectSeq(buf, LAMBDA m : m.phone = phone)

\* C29: the buffer holds at most MAX_RECENT_MESSAGES entries, the most
\* recently added ones in insertion order; get_recent_messages(phone, limit)
\* returns at most limit entries, the newest that match the phone, in
\* insertion order
C29_Theorem ==
    added.on =>
        /\ Len(recent_messages["a"]) =
               Min(MAX_RECENT_MESSAGES, Len(added.entries))
        /\ Newest(recent_messages["a"], added.entries)
        /\ got # NoGot =>
              /\ Len(got.result) =
                     Min(got.limit, Len(Matching(got.of, got.phone)))
              /\ Newest(got.result, Matching(got.of, got.phone))

\* the buffer was full, more entries were added, and a call with limit 1
\* for one customer returned the newest of that customer's many entries
C29_Witness ==
    /\ added.on
    /\ Len(added.entries) > MAX_RECENT_MESSAGES
    /\ added.entries[Len(added.entries)].phone = PhoneB
    /\ got.phone = PhoneA
    /\ got.limit = 1
    /\ got.of = recent_messages["a"]
    /\ Len(got.result) = 1
    /\ Len(Matching(recent_messages["a"], PhoneA)) > 1

\* ---- template creation

\* the POSTs made so far obey the retry rule, and a finished call has
\* returned its pair
RetryRule ==
    /\ Len(ct.outcomes) <= 2
    /\ Len(ct.outcomes) = 2 => ct.outcomes[1] = "timeout"
    /\ \A k \in 1..Len(ct.outcomes) :
          ct.outcomes[k] # "timeout" =>
              /\ k = Len(ct.outcomes)
              /\ ct.pc = "done"
              /\ ct.success = (ct.outcomes[k] \in {"200", "201"})
    /\ ct.outcomes = <<"timeout", "timeout">> =>
          ct.pc = "done" /\ ~ct.success
    /\ ct.pc = "done" => ct.success \in BOOLEAN /\ ct.result # None

\* C30: create_whatsapp_template makes at most two POSTs, the second one
\* only after the first timed out; an HTTP response or another network error
\* ends it without a retry; two timeouts end it in failure; and every call
\* comes to its end with a (success, result) pair
C30_Theorem ==
    /\ []RetryRule
    /\ (ct.pc = "start") ~> (ct.pc = "done")

\* the first POST timed out and the retry was answered with 200
C30_Witness ==
    /\ ct.pc = "done"
    /\ ct.outcomes = <<"timeout", "200">>
    /\ ct.success
    /\ ct.result = "PENDING_REVIEW"

\* ---- the stored rows across webhook and API requests

\* C23: Message rows are never deleted, and a Message's ID, phone key,
\* direction, sender role and body never change once it is created: only
\* the status fields are rewritten
C23_Theorem ==
    [][ /\ Len(messages') >= Len(messages)
        /\ \A k \in 1..Len(messages) :
              /\ messages'[k].message_id = messages[k].message_id
              /\ messages'[k].phone = messages[k].phone
              /\ messages'[k].direction = messages[k].direction
              /\ messages'[k].sender_type = messages[k].sender_type
              /\ messages'[k].sender_name = messages[k].sender_name
              /\ messages'[k].message = messages[k].message ]_vars

\* the message sent through /send-message has been reported delivered
C23_Witness ==
    \E k \in 1..Len(messages) :
        /\ messages[k].message_id = <<"wamid", 1>>
        /\ messages[k].sender_name = "Agent"
        /\ messages[k].message = ApiText
        /\ messages[k].status = "delivered"

\* send_message returns its 200 response in this step
SendReturns(i) == pc[i] = "sm_end" /\ pc'[i] = "idle"

\* ids of the Lead rows with phone key p
LeadIds(p) == { leads[j].id : j \in LeadRows(p) }

\* C24: when /send-message has sent the message and every repository call of
\* the request succeeded, there is an outbound Message row for the normalized
\* phone, a Lead row for that phone, a Conversation turn for the message
\* linked to that Lead, and the response reports stored_in_supabase = true
C24_Theorem ==
    [][ (SendReturns("a") /\ failures = call["a"].before) =>
          LET p == loc["a"].phone
              id == loc["a"].message_id
          IN  /\ Normalize(p) = p
              /\ \E k \in 1..Len(messages) :
                    /\ messages[k].message_id = id
                    /\ messages[k].phone = p
                    /\ messages[k].direction = "outbound"
              /\ LeadIds(p) # {}
              /\ \E k \in 1..Len(conversations) :
                    /\ conversations[k].message_id = id
                    /\ conversations[k].lead_id \in LeadIds(p)
              /\ response'["a"] = 200
              /\ response_body'["a"] = StoredFlag(TRUE) ]_vars

\* a /send-message request for "+91 5" has been answered "stored": the Lead
\* 915 was created on the way, and the turn is linked to it
C24_Witness ==
    /\ requests = 1
    /\ failures = 0
    /\ response["a"] = 200
    /\ response_body["a"] = "stored"
    /\ Len(messages) = 1 /\ messages[1].phone = <<"9", "1", "5">>
    /\ Len(leads) = 1 /\ leads[1].phone = <<"9", "1", "5">>
    /\ leads[1].name = "Lead"
    /\ Len(conversations) = 1
    /\ conversations[1].lead_id = leads[1].id
    /\ conversations[1].message_id = messages[1].message_id
    /\ recent_messages["a"] # <<>>

\* C25: every Conversation turn has a Message row with the same message ID
\* (no turn is appended when the Message write failed)
C25_Claim ==
    \A k \in 1..Len(conversations) :
        \E m \in 1..Len(messages) :
            messages[m].message_id = conversations[k].message_id

\* C26: a Lead row is inserted only after a lookup that succeeded and
\* reported no Lead for the phone; a failed lookup never leads to an insert
C26_Claim ==
    [][ Len(leads') > Len(leads) => call["a"].lookup = "empty" ]_vars

\* C27: once the status events are handled, every Conversation turn carries
\* the status of the Message row with the same message ID
C27_Claim ==
    pc["a"] = "idle" =>
        \A k \in 1..Len(conversations) :
            \A m \in 1..Len(messages) :
                messages[m].message_id = conversations[k].message_id =>
                    conversations[k].status = messages[m].status

\* C28: the phone key of every Lead row is a fixed point of Normalize,
\* whichever code path wrote the row
C28_Claim ==
    \A j \in 1..Len(leads) : Normalize(leads[j].phone) = leads[j].phone

====
